---------------------------- MODULE Spec2Model ----------------------------
(***************************************************************************)
(* A model of the two programs of the repository.                          *)
(*                                                                         *)
(*  - main.go: the SDK-driven flow.  It reads the test file in ChunkSize   *)
(*    windows, uploads every window through StorageClient.Upload, records  *)
(*    the roots, and then downloads every recorded root.  (Spec)           *)
(*  - the CLI-driven flow (src/unnamed/part_000): it runs the client       *)
(*    binary to upload, scrapes the root hash from the captured output     *)
(*    and runs the binary again to download.  (SpecCli)                    *)
(*                                                                         *)
(* The length and content of the opened file and the chunk size are the    *)
(* inputs of the upload loop; Init draws them from bounded sets.  The      *)
(* calls into the storage client library, the file system and the child    *)
(* process are the environment: each can succeed or fail.                  *)
(***************************************************************************)
EXTENDS Integers, Sequences, FiniteSets, TLC

\* ------------------------------------------------------------- bounds
MaxLen == 12        \* longest source file, in bytes
MaxChunk == 3       \* largest chunk size, in bytes
MaxOut == 6         \* longest captured output of the client binary, in tokens

\* ------------------------------------------------- program constants
MaxIter == 10                 \* for i := 0; i < 10; i++
ExpectedReplica == 1          \* transfer.UploadOption.ExpectedReplica
UploadTaskSize == 16777216    \* 16 * 1024 * 1024

\* The value of a local that is not set, and of failedIndex when no upload failed.
None == <<>>
NoIndex == 0 - 1

VARIABLES
    \* main.go
    file,         \* the bytes of the opened test file
    chunkSize,    \* len(buffer)
    offset,       \* read position of file
    buffer,       \* the read buffer, reused by every iteration
    i,            \* loop counter of the upload loop
    n,            \* bytes read by the last io.ReadFull
    roots,        \* var roots []string
    pc,           \* position of main
    iter,         \* Upload's local iter (the fragment's bytes) or None
    txHash,       \* Upload's local txHash or None
    tree,         \* Upload's local tree (its root) or None
    d,            \* index of the download loop
    uploadLog,    \* the calls of Upload: index, offset, data, result
    netLog,       \* the calls of indexer.Client.Upload: index, data, opt, err
    downloads,    \* the calls of Download: index, root, err
    failedIndex,  \* the fragment index log.Fatalf reported, or NoIndex
    \* the CLI-driven flow
    cpc,          \* position of its main
    output,       \* the captured output of the upload command
    rootHash,     \* the parsed root hash
    cmdLog        \* the commands run: name, root, err

mainVars == <<file, chunkSize, offset, buffer, i, n, roots, pc, iter, txHash,
              tree, d, uploadLog, netLog, downloads, failedIndex>>
cliVars == <<cpc, output, rootHash, cmdLog>>
vars == <<mainVars, cliVars>>

\* ------------------------------------------------------------ helpers
Min(a, b) == IF a < b THEN a ELSE b

\* The content of a source of length len: the zero bytes createDummyFile
\* leaves, or bytes that name their own offset.
SourceBytes(len, fill) ==
    [p \in 1..len |-> IF fill = "zero" THEN 0 ELSE p]

\* io.ReadFull(file, buffer): fills the buffer from the read position until
\* it is full or the file ends.
ReadFull(f, off, buf) ==
    LET cnt == Min(Len(buf), Len(f) - off)
    IN  [n   |-> cnt,
         buf |-> [k \in 1..Len(buf) |-> IF k <= cnt THEN f[off + k] ELSE buf[k]],
         err |-> IF cnt = Len(buf) THEN "nil"
                 ELSE IF cnt = 0 THEN "EOF" ELSE "ErrUnexpectedEOF"]

\* The file position after a read of cnt bytes (NextOffsetSkip: a read that
\* loses the byte after the window).
NextOffsetSkip(off, cnt) == off + cnt + 1
NextOffset(off, cnt) == off + cnt

\* buffer[:n]
Slice(buf, cnt) == SubSeq(buf, 1, cnt)

\* tree.Root().Hex(): the Merkle root of a payload; equal payloads have equal
\* roots and different payloads different ones (MerkleRootConsumed: the tree
\* of an iterator the upload has already drained).
MerkleRootConsumed(data) == <<"root", <<>>>>
MerkleRoot(data) == <<"root", data>>

\* The options Upload passes to the indexer client.
UploadOption ==
    [FinalityRequired |-> "FileFinalized", ExpectedReplica |-> ExpectedReplica,
     TaskSize |-> UploadTaskSize, Method |-> "min", FullTrusted |-> TRUE]

\* The errors of indexer.Client.Upload.
NetErrors == {"SelectionExhausted", "FinalityTimeout", "TransportFailure"}

\* roots = append(roots, root) (AppendRootFront: the root put first).
AppendRootFront(rs, r) == <<r>> \o rs
AppendRoot(rs, r) == Append(rs, r)

\* The result of the call of Upload in flight is set.
SetResult(log, res) == [log EXCEPT ![Len(log)].result = res]

\* ------------------------------------------------------------ main.go
InitCliIdle ==
    /\ cpc = "idle"
    /\ output = <<>>
    /\ rootHash = ""
    /\ cmdLog = <<>>

InitMain ==
    /\ \E len \in 0..MaxLen, fill \in {"zero", "offset"} :
          file = SourceBytes(len, fill)
    /\ chunkSize \in 1..MaxChunk
    /\ offset = 0
    /\ buffer = [k \in 1..chunkSize |-> 0]
    /\ i = 0
    /\ n = 0
    /\ roots = <<>>
    /\ pc = "setup"
    /\ iter = None
    /\ txHash = None
    /\ tree = None
    /\ d = 0
    /\ uploadLog = <<>>
    /\ netLog = <<>>
    /\ downloads = <<>>
    /\ failedIndex = NoIndex

Init == InitMain /\ InitCliIdle

\* Lines 38-68: the private key, the client, the test file and its handle.
\* Each failure ends the process.
Setup ==
    /\ pc = "setup"
    /\ \/ pc' = "loop"
       \/ pc' = "fatal_setup"
    /\ UNCHANGED <<file, chunkSize, offset, buffer, i, n, roots, iter, txHash,
                   tree, d, uploadLog, netLog, downloads, failedIndex>>
    /\ UNCHANGED cliVars

\* The condition of the upload loop.
LoopCond(k) == k < MaxIter

\* Line 75: the loop ends after MaxIter iterations.
LoopExit ==
    /\ pc = "loop"
    /\ ~LoopCond(i)
    /\ pc' = "download"
    /\ UNCHANGED <<file, chunkSize, offset, buffer, i, n, roots, iter, txHash,
                   tree, d, uploadLog, netLog, downloads, failedIndex>>
    /\ UNCHANGED cliVars

\* Lines 78-81: io.ReadFull fails with an error other than EOF.
ReadFatal ==
    /\ pc = "loop"
    /\ LoopCond(i)
    /\ pc' = "fatal_read"
    /\ UNCHANGED <<file, chunkSize, offset, buffer, i, n, roots, iter, txHash,
                   tree, d, uploadLog, netLog, downloads, failedIndex>>
    /\ UNCHANGED cliVars

\* Whether the loop ends on a read of cnt bytes (BreakOnNever: without the
\* n == 0 test).
BreakOnNever(cnt) == FALSE
BreakOn(cnt) == cnt = 0

\* Lines 78-87: one read; nothing read ends the loop, anything else is
\* handed to Upload as buffer[:n].
ReadChunk ==
    /\ pc = "loop"
    /\ LoopCond(i)
    /\ LET r == ReadFull(file, offset, buffer)
       IN  /\ n' = r.n
           /\ buffer' = r.buf
           /\ offset' = NextOffset(offset, r.n)
           /\ IF BreakOn(r.n)
              THEN /\ pc' = "download"
                   /\ UNCHANGED uploadLog
              ELSE /\ pc' = "upload"
                   /\ uploadLog' = Append(uploadLog,
                          [index |-> i, off |-> offset,
                           data |-> Slice(r.buf, r.n), result |-> "pending"])
    /\ UNCHANGED <<file, chunkSize, i, roots, iter, txHash, tree, d, netLog,
                   downloads, failedIndex>>
    /\ UNCHANGED cliVars

\* Lines 88-90: Upload returned an error; log.Fatalf ends the process
\* (UploadFailedContinue: the failure is logged and the loop goes on).
UploadFailedContinue ==
    /\ pc' = "loop"
    /\ i' = i + 1
    /\ uploadLog' = SetResult(uploadLog, "err")
    /\ failedIndex' = i
    /\ iter' = None
    /\ txHash' = None
    /\ tree' = None
UploadFailed ==
    /\ pc' = "fatal_upload"
    /\ uploadLog' = SetResult(uploadLog, "err")
    /\ failedIndex' = i
    /\ UNCHANGED <<i, iter, txHash, tree>>

\* Lines 139-142: core.NewDataInMemory(data).
UploadNewData ==
    /\ pc = "upload"
    /\ \/ /\ iter' = Slice(buffer, n)
          /\ pc' = "net"
          /\ UNCHANGED <<i, txHash, tree, uploadLog, failedIndex>>
       \/ UploadFailed
    /\ UNCHANGED <<file, chunkSize, offset, buffer, n, roots, d, netLog, downloads>>
    /\ UNCHANGED cliVars

\* Lines 152-154: what Upload does with the result of the network upload
\* (NetReturnIgnoreErr: without the error check).
NetReturnIgnoreErr(err) ==
    /\ txHash' = <<"tx", Len(netLog) + 1>>
    /\ pc' = "merkle"
    /\ UNCHANGED <<i, iter, tree, uploadLog, failedIndex>>
NetReturn(err) ==
    IF err = "nil"
    THEN /\ txHash' = <<"tx", Len(netLog) + 1>>
         /\ pc' = "merkle"
         /\ UNCHANGED <<i, iter, tree, uploadLog, failedIndex>>
    ELSE UploadFailed

\* Lines 145-154: c.idx.Upload(ctx, c.w3, iter, opt) and its error check.
UploadNet ==
    /\ pc = "net"
    /\ \E err \in {"nil"} \cup NetErrors :
          /\ netLog' = Append(netLog,
                 [index |-> i, data |-> iter, opt |-> UploadOption, err |-> err])
          /\ NetReturn(err)
    /\ UNCHANGED <<file, chunkSize, offset, buffer, n, roots, d, downloads>>
    /\ UNCHANGED cliVars

\* Lines 157-160: core.MerkleTree(iter), computed once the network upload
\* has returned.
UploadMerkle ==
    /\ pc = "merkle"
    /\ \/ /\ tree' = MerkleRoot(iter)
          /\ pc' = "return"
          /\ UNCHANGED <<i, iter, txHash, uploadLog, failedIndex>>
       \/ UploadFailed
    /\ UNCHANGED <<file, chunkSize, offset, buffer, n, roots, d, netLog, downloads>>
    /\ UNCHANGED cliVars

\* Lines 162 and 87-94: Upload returns (txHash, root, nil); main appends the
\* root and starts the next iteration.
UploadReturn ==
    /\ pc = "return"
    /\ roots' = AppendRoot(roots, tree)
    /\ uploadLog' = SetResult(uploadLog, "ok")
    /\ i' = i + 1
    /\ iter' = None
    /\ txHash' = None
    /\ tree' = None
    /\ pc' = "loop"
    /\ UNCHANGED <<file, chunkSize, offset, buffer, n, d, netLog, downloads,
                   failedIndex>>
    /\ UNCHANGED cliVars

\* Lines 102-107: where main goes after a download that returned err
\* (AfterDownloadStop: a failed download ends the process).
AfterDownloadStop(err) == IF err = "nil" THEN "download" ELSE "fatal_download"
AfterDownload(err) == "download"

\* Lines 98-108 and 166-169: one download per recorded root; its error is
\* the one indexer.Client.Download returns, and is only logged.
DownloadChunk ==
    /\ pc = "download"
    /\ d < Len(roots)
    /\ \E err \in {"nil", "DownloadError"} :
          /\ downloads' = Append(downloads,
                 [index |-> d, root |-> roots[d + 1], err |-> err])
          /\ pc' = AfterDownload(err)
    /\ d' = d + 1
    /\ UNCHANGED <<file, chunkSize, offset, buffer, i, n, roots, iter, txHash,
                   tree, uploadLog, netLog, failedIndex>>
    /\ UNCHANGED cliVars

\* Lines 110-113: the completion message.
Complete ==
    /\ pc = "download"
    /\ d >= Len(roots)
    /\ pc' = "done"
    /\ UNCHANGED <<file, chunkSize, offset, buffer, i, n, roots, iter, txHash,
                   tree, d, uploadLog, netLog, downloads, failedIndex>>
    /\ UNCHANGED cliVars

Next ==
    \/ Setup
    \/ LoopExit
    \/ ReadFatal
    \/ ReadChunk
    \/ UploadNewData
    \/ UploadNet
    \/ UploadMerkle
    \/ UploadReturn
    \/ DownloadChunk
    \/ Complete

Spec == Init /\ [][Next]_vars

\* ------------------------------------------------------- the CLI flow
InitMainIdle ==
    /\ file = <<>>
    /\ chunkSize = 1
    /\ offset = 0
    /\ buffer = <<0>>
    /\ i = 0
    /\ n = 0
    /\ roots = <<>>
    /\ pc = "idle"
    /\ iter = None
    /\ txHash = None
    /\ tree = None
    /\ d = 0
    /\ uploadLog = <<>>
    /\ netLog = <<>>
    /\ downloads = <<>>
    /\ failedIndex = NoIndex

\* The captured output, as a sequence of tokens: the word root, a colon, a
\* white-space character (the line breaks runCommand writes are such), 0x
\* with 64 hex digits (two different ones), and 0x with fewer hex digits.
Hashes == {"0x1111", "0x2222"}
Separators == {":", " "}
Tokens == {"root", "0x11"} \cup Separators \cup Hashes
Outputs == UNION {[1..k -> Tokens] : k \in 0..MaxOut}

\* The regular expression root[:\s]+(0x[a-fA-F0-9]{64}) matches from token
\* p and ends in token q.
MatchesFromTo(log, p, q) ==
    /\ log[p] = "root"
    /\ q > p + 1
    /\ \A m \in (p + 1)..(q - 1) : log[m] \in Separators
    /\ log[q] \in Hashes
MatchStarts(log) ==
    {p \in 1..Len(log) : \E q \in 1..Len(log) : MatchesFromTo(log, p, q)}

\* Which of the matches FindStringSubmatch returns: the leftmost
\* (PickMatchLast: the rightmost).
PickMatchLast(starts) == CHOOSE p \in starts : \A p2 \in starts : p2 <= p
PickMatch(starts) == CHOOSE p \in starts : \A p2 \in starts : p <= p2

\* parseRootHash: the group of the leftmost match, or the empty string.
ParseRootHash(log) ==
    LET starts == MatchStarts(log)
    IN  IF starts = {} THEN ""
        ELSE LET p == PickMatch(starts)
                 q == CHOOSE q \in 1..Len(log) : MatchesFromTo(log, p, q)
             IN  log[q]

InitCli ==
    /\ InitMainIdle
    /\ cpc = "generate"
    /\ output = <<>>
    /\ rootHash = ""
    /\ cmdLog = <<>>

\* Lines 34-38: generateLargeFile; its failure ends main.
CliGenerate ==
    /\ cpc = "generate"
    /\ \/ cpc' = "upload"
       \/ cpc' = "end"
    /\ UNCHANGED <<output, rootHash, cmdLog>>
    /\ UNCHANGED mainVars

\* Lines 58-61: where main goes after the upload command returned err.
AfterUpload(err) == IF err = "nil" THEN "parse" ELSE "end"

\* Lines 57-61 and 105-129: runCommand runs the upload command and captures
\* its output; the command can fail to start (no output) or exit with an
\* error (the output so far is returned with it).
CliUpload ==
    /\ cpc = "upload"
    /\ \E out \in Outputs, err \in {"nil", "StartError", "ExitError"} :
          /\ err = "StartError" => out = <<>>
          /\ output' = out
          /\ cmdLog' = Append(cmdLog,
                 [name |-> "upload", root |-> "", out |-> out, err |-> err])
          /\ cpc' = AfterUpload(err)
    /\ UNCHANGED rootHash
    /\ UNCHANGED mainVars

\* Lines 64-69: the root hash is parsed from the output; none ends main.
CliParse ==
    /\ cpc = "parse"
    /\ rootHash' = ParseRootHash(output)
    /\ cpc' = IF rootHash' = "" THEN "end" ELSE "download"
    /\ UNCHANGED <<output, cmdLog>>
    /\ UNCHANGED mainVars

\* Lines 73-86: the download command, run with the parsed root.
CliDownload ==
    /\ cpc = "download"
    /\ \E err \in {"nil", "StartError", "ExitError"} :
          cmdLog' = Append(cmdLog,
              [name |-> "download", root |-> rootHash, out |-> <<>>, err |-> err])
    /\ cpc' = "end"
    /\ UNCHANGED <<output, rootHash>>
    /\ UNCHANGED mainVars

NextCli ==
    \/ CliGenerate
    \/ CliUpload
    \/ CliParse
    \/ CliDownload

SpecCli == InitCli /\ [][NextCli]_vars

\* ------------------------------------------------------------- claims
RECURSIVE Concat(_)
Concat(ss) == IF ss = <<>> THEN <<>> ELSE Head(ss) \o Concat(Tail(ss))

\* Fragment j of the source: the bytes [j*chunkSize, (j+1)*chunkSize) that
\* the source holds.
Fragment(j) ==
    SubSeq(file, j * chunkSize + 1, Min((j + 1) * chunkSize, Len(file)))
NumFragments == (Len(file) + chunkSize - 1) \div chunkSize
Succeeded == {k \in 1..Len(uploadLog) : uploadLog[k].result = "ok"}
LastUpload == uploadLog[Len(uploadLog)]
LastNet == netLog[Len(netLog)]

\* C1: when every upload succeeded and the run is complete, the fragments
\* whose roots were recorded, concatenated in index order, are the whole
\* source, and there are ceil(L/F) of them.
C1_ReadToExhaustion ==
    (pc = "done" /\ Succeeded = 1..Len(uploadLog)) =>
        /\ Concat([k \in 1..Len(uploadLog) |-> uploadLog[k].data]) = file
        /\ Len(roots) = NumFragments

\* C2: in every state the recorded roots are the roots of fragments 0..k-1,
\* in index order, where k is the number of uploads that have succeeded;
\* every recorded root belongs to an upload that returned success after
\* its network upload returned without error.
C2_RootsInOrder ==
    /\ Len(roots) = Cardinality(Succeeded)
    /\ \A j \in 1..Len(roots) :
          /\ roots[j] = MerkleRoot(Fragment(j - 1))
          /\ j <= Len(uploadLog)
          /\ uploadLog[j].index = j - 1
          /\ uploadLog[j].result = "ok"
          /\ \E m \in 1..Len(netLog) :
                /\ netLog[m].index = j - 1
                /\ netLog[m].data = Fragment(j - 1)
                /\ netLog[m].err = "nil"
C2_Witness ==
    /\ Len(roots) = 3
    /\ roots[1] # roots[2]
    /\ Len(Fragment(2)) < chunkSize
    /\ pc = "loop"

\* C3: once the upload of fragment i has failed, the run is over: no upload
\* was or is issued for an index above i, no root is recorded for fragment
\* i, no download is started and completion is not reported; a failure at
\* index 0 leaves the roots empty.
C3_FailureStops ==
    failedIndex # NoIndex =>
        /\ pc = "fatal_upload"
        /\ Len(uploadLog) = failedIndex + 1
        /\ LastUpload.index = failedIndex
        /\ LastUpload.result = "err"
        /\ \A m \in 1..Len(netLog) : netLog[m].index <= failedIndex
        /\ Len(roots) = failedIndex
        /\ failedIndex = 0 => roots = <<>>
        /\ downloads = <<>>
        /\ d = 0
C3_Witness ==
    /\ failedIndex = 0
    /\ pc = "fatal_upload"
    /\ Len(file) > 2 * chunkSize
    /\ netLog # <<>>
    /\ LastNet.index = 0
    /\ LastNet.opt.FullTrusted
    /\ LastNet.err = "SelectionExhausted"

\* C5: for an empty source Upload is never invoked, no root is recorded and
\* the run goes through the (empty) download phase to completion: the only
\* failures left are those of the set-up and of the read itself.  Upload and
\* the network upload are never given a zero-length fragment.
C5_EmptySource ==
    /\ Len(file) = 0 =>
          /\ uploadLog = <<>>
          /\ netLog = <<>>
          /\ roots = <<>>
          /\ downloads = <<>>
          /\ pc \in {"setup", "fatal_setup", "loop", "fatal_read", "download", "done"}
          /\ pc = "download" => ENABLED Complete
    /\ \A k \in 1..Len(uploadLog) : Len(uploadLog[k].data) > 0
    /\ \A m \in 1..Len(netLog) : Len(netLog[m].data) > 0
C5_Witness ==
    /\ Len(file) = 0
    /\ pc = "done"
    /\ n = 0
    /\ uploadLog = <<>>

\* C6: fragment i handed to Upload covers the source bytes from i*chunkSize
\* on; every fragment but the last handed has chunkSize bytes and the last
\* between 1 and chunkSize.
C6_FragmentShape ==
    \A k \in 1..Len(uploadLog) :
        LET u == uploadLog[k]
        IN  /\ u.index = k - 1
            /\ u.off = (k - 1) * chunkSize
            /\ Len(u.data) >= 1
            /\ Len(u.data) <= chunkSize
            /\ k < Len(uploadLog) => Len(u.data) = chunkSize
            /\ u.off + Len(u.data) <= Len(file)
            /\ u.data = SubSeq(file, u.off + 1, u.off + Len(u.data))
C6_Witness ==
    /\ Len(uploadLog) = 3
    /\ chunkSize = 3
    /\ Len(LastUpload.data) = 2
    /\ LastUpload.data = <<7, 8>>

\* C7: an upload reported as a success has a network upload of the same
\* fragment, issued with FileFinalized and the expected replica count, that
\* returned without error; an upload whose network upload returned an error
\* is not on its way to success nor reported as one.
C7_SuccessAfterFinalized ==
    /\ \A k \in 1..Len(uploadLog) :
          (uploadLog[k].result = "ok" \/ (k = Len(uploadLog) /\ pc = "return")) =>
              \E m \in 1..Len(netLog) :
                  /\ netLog[m].index = uploadLog[k].index
                  /\ netLog[m].data = uploadLog[k].data
                  /\ netLog[m].err = "nil"
                  /\ netLog[m].opt.FinalityRequired = "FileFinalized"
                  /\ netLog[m].opt.ExpectedReplica = ExpectedReplica
    /\ \A m \in 1..Len(netLog) :
          netLog[m].err # "nil" =>
              /\ uploadLog[netLog[m].index + 1].result = "err"
              /\ Len(roots) <= netLog[m].index
C7_Witness ==
    /\ Cardinality(Succeeded) = 2
    /\ Len(netLog) = 3
    /\ LastNet.err = "FinalityTimeout"

C9_DownloadPhase ==
    /\ (pc \in {"download", "done"} \/ downloads # <<>>) =>
          /\ Succeeded = 1..Len(uploadLog)
          /\ Len(roots) = Len(uploadLog)
          /\ failedIndex = NoIndex
          /\ iter = None
          /\ pc \in {"download", "done"}
    /\ Len(downloads) = d
    /\ d <= Len(roots)
    /\ \A k \in 1..Len(downloads) :
          /\ downloads[k].index = k - 1
          /\ downloads[k].root = roots[k]
    /\ pc = "done" => Len(downloads) = Len(roots)
    /\ pc = "download" => ENABLED (DownloadChunk \/ Complete)
C9_Witness ==
    /\ pc = "done"
    /\ Len(downloads) = 3
    /\ downloads[1].err # "nil"
    /\ downloads[2].err = "nil"
    /\ downloads[3].err # "nil"

\* C10: the download command is run at most once, only after the upload
\* command exited without error and with the root of the first match of
\* root, separators, hash in its output; when the upload command fails or
\* its output holds no match, main ends without a download.
FirstMatchIs(log, h) ==
    \E p \in 1..Len(log), q \in 1..Len(log) :
        /\ p < q - 1
        /\ log[p] = "root"
        /\ \A m \in (p + 1)..(q - 1) : log[m] \in {":", " "}
        /\ log[q] = h
        /\ h \in {"0x1111", "0x2222"}
        /\ ~ \E p2 \in 1..(p - 1), q2 \in 1..Len(log) :
              /\ p2 < q2 - 1
              /\ log[p2] = "root"
              /\ \A m \in (p2 + 1)..(q2 - 1) : log[m] \in {":", " "}
              /\ log[q2] \in {"0x1111", "0x2222"}
DownloadRuns == {k \in 1..Len(cmdLog) : cmdLog[k].name = "download"}
C10_DownloadAfterParsedRoot ==
    /\ Cardinality(DownloadRuns) <= 1
    /\ \A k \in DownloadRuns :
          /\ k = 2
          /\ cmdLog[1].name = "upload"
          /\ cmdLog[1].err = "nil"
          /\ FirstMatchIs(cmdLog[1].out, cmdLog[k].root)
    /\ (cmdLog # <<>> /\ (cmdLog[1].err # "nil" \/
            ~ \E h \in {"0x1111", "0x2222"} : FirstMatchIs(cmdLog[1].out, h))) =>
          /\ DownloadRuns = {}
          /\ cpc \in {"parse", "end"}
C10_Witness ==
    /\ cpc = "end"
    /\ Len(cmdLog) = 2
    /\ cmdLog[1].out = <<"root", ":", "0x2222", "root", " ", "0x1111">>
    /\ cmdLog[2].root = "0x2222"

=============================================================================
